---- MODULE Spec2Model ----
(***************************************************************************)
(* Model of projetos.py: the SQLite table "projetos", the st.cache_data    *)
(* snapshot of load_data, save_dataframe (bulk replace), the CSV           *)
(* export/import and the script run of tab_5w2h.                           *)
(*                                                                         *)
(* Two sessions share the database and the process-wide cache: a session   *)
(* on the "5W2H" page (the only writer) and a session on the "Dashboard"   *)
(* page (a reader).  save_dataframe is split at its two commits, which is  *)
(* where another connection can see its effect.                            *)
(***************************************************************************)
EXTENDS Integers, Sequences, FiniteSets, TLC

\* ---------------------------------------------------------------- bounds
MaxRows == 2      \* longest data frame a run saves
MaxId == 4        \* largest id the table hands out
MaxNum == 10      \* largest number a numeric literal denotes

\* ------------------------------------------------------------- constants
TTL == 600        \* @st.cache_data(ttl=600)

\* ---------------------------------------------------------------- values
\* A cell: SQL NULL / None / NaN, a text, an integer or a float.
Null == [k |-> "null", s |-> "", n |-> 0]
Str(s) == [k |-> "str", s |-> s, n |-> 0]
IntV(n) == [k |-> "int", s |-> "", n |-> n]
Flt(n) == [k |-> "float", s |-> "", n |-> n]

notnull(v) == v.k # "null"

\* The numeric literals of the model: "7", "007" and "7.0" all denote 7.
IsIntLit(s) == \E n \in 0..MaxNum : s = ToString(n) \/ s = "00" \o ToString(n)
IsFloatLit(s) == \E n \in 0..MaxNum : s = ToString(n) \o ".0"
LitValue(s) ==
  CHOOSE n \in 0..MaxNum :
    s \in {ToString(n), "00" \o ToString(n), ToString(n) \o ".0"}

\* float(x) of Python: a record with ok = FALSE stands for ValueError.
float(v) ==
  CASE v.k \in {"int", "float"} -> [ok |-> TRUE, v |-> Flt(v.n)]
    [] v.k = "str" /\ (IsIntLit(v.s) \/ IsFloatLit(v.s)) ->
         [ok |-> TRUE, v |-> Flt(LitValue(v.s))]
    [] OTHER -> [ok |-> FALSE, v |-> Null]

\* ---------------------------------------------------------------- schema
TextFields ==
  {"quem", "oque", "por_que", "onde", "quando", "como", "fim_previsto",
   "status_prazo", "status_tarefa", "tipo_retorno", "historico", "observacoes"}
RealFields == {"quanto_custa", "estimativa_retorno"}
FieldNames ==
  <<"quem", "oque", "por_que", "onde", "quando", "como", "quanto_custa",
    "fim_previsto", "status_prazo", "status_tarefa", "tipo_retorno",
    "estimativa_retorno", "historico", "observacoes">>
Fields == TextFields \cup RealFields
TableCols == <<"id">> \o FieldNames

\* Column affinity of SQLite: a number bound to a TEXT column is stored as
\* its text, a float NaN is bound as NULL (Null already stands for both).
TextAffinity(v) ==
  CASE v.k = "int" -> Str(ToString(v.n))
    [] v.k = "float" -> Str(ToString(v.n) \o ".0")
    [] OTHER -> v
RealAffinity(v) ==
  CASE v.k = "int" -> Flt(v.n)
    [] v.k = "str" /\ (IsIntLit(v.s) \/ IsFloatLit(v.s)) -> Flt(LitValue(v.s))
    [] OTHER -> v
Affinity(c, v) == IF c \in RealFields THEN RealAffinity(v) ELSE TextAffinity(v)

Max(a, b) == IF a >= b THEN a ELSE b
Range(f) == {f[i] : i \in DOMAIN f}

\* ------------------------------------------------------------ data frames
\* A data frame is [cols |-> sequence of column names, rows |-> sequence of
\* rows], a row being a function from the frame's columns to cells.
Frame(cols, rows) == [cols |-> cols, rows |-> rows]
EmptyFrame == Frame(<<>>, <<>>)

\* SELECT * FROM projetos, as a data frame (the rows carry their id).
ReadAll(tbl) == Frame(TableCols, tbl)

\* The row without its id and without the helper column of the filter.
FieldsOf(row) == [c \in Fields \cap DOMAIN row |-> row[c]]
FieldRows(rows) == [i \in DOMAIN rows |-> FieldsOf(rows[i])]

\* --------------------------------------------------------- save_dataframe
\* row.get(c, ""): the cell, or "" when the frame has no such column.
RowGet(row, c) == IF c \in DOMAIN row THEN row[c] ELSE Str("")

\* float(row[c]) if pd.notnull(row[c]) else None; ok = FALSE stands for the
\* KeyError of a missing column and the ValueError of float().
NumericValue(row, c) ==
  IF c \notin DOMAIN row THEN [ok |-> FALSE, v |-> Null]
  ELSE IF notnull(row[c]) THEN float(row[c])
  ELSE [ok |-> TRUE, v |-> Null]

\* The 14-tuple `values` of one row; ok = FALSE when building it raises.
RowValues(row) ==
  LET num == [c \in RealFields |-> NumericValue(row, c)]
  IN [ok |-> \A c \in RealFields : num[c].ok,
      vals |-> [c \in Fields |->
                  IF c \in RealFields THEN num[c].v ELSE RowGet(row, c)]]

RowidPlain(s, inserted) ==
  IF inserted = <<>> THEN 1 ELSE inserted[Len(inserted)]["id"].n + 1
\* id INTEGER PRIMARY KEY AUTOINCREMENT: one more than the largest rowid the
\* table has ever held (sqlite_sequence), which DELETE does not reset.
Rowid(s, inserted) == s + 1

\* INSERT INTO projetos (...) VALUES (...): the stored row.
StoredRow(id, vals) ==
  [c \in Range(TableCols) |->
     IF c = "id" THEN IntV(id) ELSE Affinity(c, vals[c])]

AppendFirst(inserted, r) == <<r>> \o inserted
\* Rows come back in rowid order, which is insertion order.
AppendRow(inserted, r) == Append(inserted, r)

\* The insert loop over df.iterrows(), run inside one open transaction:
\* the rows inserted so far, the sequence counter, and whether a row raised.
RECURSIVE InsertLoop(_, _, _)
InsertLoop(rows, inserted, s) ==
  IF rows = <<>> THEN [ok |-> TRUE, rows |-> inserted, seq |-> s]
  ELSE LET rv == RowValues(Head(rows))
       IN IF ~rv.ok THEN [ok |-> FALSE, rows |-> inserted, seq |-> s]
          ELSE LET id == Rowid(s, inserted)
               IN InsertLoop(Tail(rows),
                             AppendRow(inserted, StoredRow(id, rv.vals)),
                             Max(s, id))

\* -------------------------------------------------------------- CSV codec
CellText(v) ==
  CASE v.k = "null" -> ""
    [] v.k = "str" -> v.s
    [] v.k = "int" -> ToString(v.n)
    [] OTHER -> ToString(v.n) \o ".0"

\* df.to_csv(index=False): a header line with every column of the frame and
\* one line per row.
to_csv(df) ==
  [header |-> df.cols,
   lines |-> [i \in DOMAIN df.rows |->
                [j \in DOMAIN df.cols |-> CellText(df.rows[i][df.cols[j]])]]]
download_csv(df) == to_csv(df)

NoFile == [header |-> <<"-">>, lines |-> <<>>]
EmptyFile == [header |-> <<>>, lines |-> <<>>]

\* Cells pandas reads as missing (some of its default na_values).
NAValues == {"", "NA", "NaN", "nan", "NULL", "null", "None", "N/A"}

ColumnKind(file, j) ==
  LET cells == {file.lines[i][j] : i \in DOMAIN file.lines} \ NAValues
      anyNA == \E i \in DOMAIN file.lines : file.lines[i][j] \in NAValues
  IN IF cells = {} THEN "float"
     ELSE IF \A x \in cells : IsIntLit(x)
          THEN (IF anyNA THEN "float" ELSE "int")
     ELSE IF \A x \in cells : IsIntLit(x) \/ IsFloatLit(x) THEN "float"
     ELSE "str"

CellValue(kind, x) ==
  IF x \in NAValues THEN Null
  ELSE CASE kind = "int" -> IntV(LitValue(x))
         [] kind = "float" -> Flt(LitValue(x))
         [] OTHER -> Str(x)

\* pd.read_csv: header-driven columns with per-column type inference;
\* ok = FALSE stands for the exception raised on a file with no columns.
read_csv(file) ==
  IF file.header = <<>> THEN [ok |-> FALSE, df |-> EmptyFrame]
  ELSE [ok |-> TRUE,
        df |-> Frame(file.header,
                 [i \in DOMAIN file.lines |->
                    [c \in Range(file.header) |->
                       LET j == CHOOSE jj \in DOMAIN file.header :
                                  file.header[jj] = c
                       IN CellValue(ColumnKind(file, j), file.lines[i][j])]])]

\* ------------------------------------------------------------- the filter
status_opcoes ==
  {Str("Não iniciada"), Str("Em andamento"), Str("Concluída"),
   Str("Cancelada"), Str("Em espera")}

\* The days the model distinguishes, in calendar order.
Calendar == <<"2024-01-01", "2024-01-10", "2024-01-31", "2024-03-05">>
NaT == 0
\* pd.to_datetime(x, errors='coerce'): the day, or NaT.
to_datetime(v) ==
  IF v.k = "str" /\ \E d \in DOMAIN Calendar : Calendar[d] = v.s
  THEN CHOOSE d \in DOMAIN Calendar : Calendar[d] = v.s
  ELSE NaT
DateV(d) == IF d = NaT THEN Null ELSE [k |-> "date", s |-> "", n |-> d]

quem_unique(df) == {df.rows[i]["quem"] : i \in DOMAIN df.rows}

InRangeLoose(d, f) == d = NaT \/ (d >= f.data_inicial /\ d <= f.data_final)
\* A comparison with NaT is false, so an unparseable date never passes.
InRange(d, f) == d # NaT /\ d >= f.data_inicial /\ d <= f.data_final

Passes(row, f) ==
  /\ row["quem"] \in f.selected_quem
  /\ row["status_tarefa"] \in f.selected_status
  /\ InRange(to_datetime(row["fim_previsto"]), f)

WithDate(row) ==
  [c \in DOMAIN row \cup {"fim_previsto_dt"} |->
     IF c = "fim_previsto_dt" THEN DateV(to_datetime(row["fim_previsto"]))
     ELSE row[c]]
DropId(row) == [c \in DOMAIN row \ {"id"} |-> row[c]]

\* filtered_df without its id column (editor_df): what the grid shows.
editor_df(df, f) ==
  IF df.rows = <<>> THEN Frame(FieldNames, <<>>)
  ELSE LET kept == SelectSeq(df.rows, LAMBDA r : Passes(r, f))
       IN Frame(FieldNames \o <<"fim_previsto_dt">>,
                [i \in DOMAIN kept |-> DropId(WithDate(kept[i]))])

\* ------------------------------------------------------------ user inputs
\* Rows a user types into the grid; cells left alone stay None.
GridRow(quem, oque, fim, status, custo) ==
  [c \in Fields |->
     CASE c = "quem" -> quem
       [] c = "oque" -> oque
       [] c = "fim_previsto" -> fim
       [] c = "status_tarefa" -> status
       [] c = "quanto_custa" -> custo
       [] OTHER -> Null]
SampleRows ==
  {GridRow(Str("Alice"), Str("obra"), Str("2024-01-10"), Str("Concluída"), Flt(7)),
   GridRow(Str("Bob"), Str(""), Str("not-a-date"), Str("Em andamento"), Null),
   GridRow(Str("Alice"), Str("frete"), Str("2024-03-05"), Str("Concluída"), Str("abc"))}

\* Files a user uploads: a complete one whose "quem" column holds "007", one
\* without the quanto_custa column, and an empty file.
SampleFiles ==
  {to_csv(Frame(FieldNames,
      <<GridRow(Str("007"), Str("obra"), Str("2024-01-31"), Str("Concluída"), Str("10"))>>)),
   to_csv(Frame(SelectSeq(FieldNames, LAMBDA c : c # "quanto_custa"),
      <<GridRow(Str("Bob"), Str("obra"), Str("2024-01-10"), Str("Cancelada"), Null)>>)),
   EmptyFile}

\* What a user sets the sidebar to: the defaults of the two multiselects, or
\* Alice's completed actions; in both cases January 2024.
Filters(df) ==
  {[selected_quem |-> quem_unique(df), selected_status |-> status_opcoes,
    data_inicial |-> 1, data_final |-> 3],
   [selected_quem |-> quem_unique(df) \cap {Str("Alice")},
    selected_status |-> {Str("Concluída")},
    data_inicial |-> 1, data_final |-> 3]}
NoFilter ==
  [selected_quem |-> {}, selected_status |-> {}, data_inicial |-> 0,
   data_final |-> 0]

\* st.data_editor(editor_df, num_rows="dynamic"): the grid after the user
\* left it alone, added a row or removed one.
GridAdd(ed, r) ==
  Frame(ed.cols, Append(ed.rows, [c \in Range(ed.cols) |->
                                    IF c \in DOMAIN r THEN r[c] ELSE Null]))
GridDel(ed, i) ==
  Frame(ed.cols, SubSeq(ed.rows, 1, i - 1) \o SubSeq(ed.rows, i + 1, Len(ed.rows)))
data_editor(ed) ==
  {ed} \cup {GridAdd(ed, r) : r \in {x \in SampleRows : Len(ed.rows) < MaxRows}}
       \cup {GridDel(ed, i) : i \in DOMAIN ed.rows}

\* ------------------------------------------------------------------ state
VARIABLES
  table,      \* committed rows of projetos, in rowid order
  seq,        \* committed sqlite_sequence value for projetos
  pending,    \* rows inserted by the open transaction of save_dataframe
  pseq,       \* sqlite_sequence value inside that transaction
  cache,      \* the st.cache_data entry of load_data
  pc,         \* where the script run of the 5W2H session stands
  call,       \* which call site runs save_dataframe: "grid" or "upload"
  df,         \* tab_5w2h: df = load_data()
  filtro,     \* tab_5w2h: the sidebar widgets       (both kept from a click
  edited_df,  \* tab_5w2h: what st.data_editor gave   on the button to line 160)
  saving,     \* save_dataframe: its argument
  uploaded,   \* the file held by st.file_uploader (kept across reruns)
  csv,        \* the bytes behind the download button
  status,     \* outcome of the latest save_dataframe call
  saveOld,    \* history: the table when that call was entered
  nsaves,     \* history: save_dataframe calls made by the current run
  uplNew,     \* history: the current run is the one that attached the file
  last,       \* history: the latest load_data call: was it served from the
              \* cache, was it the first one after a save returned
  sinceSave   \* history: a save returned and load_data was not called since

vars ==
  <<table, seq, pending, pseq, cache, pc, call, df, filtro, edited_df,
    saving, uploaded, csv, status, saveOld, nsaves, uplNew, last, sinceSave>>

dbVars == <<table, seq, pending, pseq>>
runVars == <<df, filtro, edited_df>>
callVars == <<call, saving, status, saveOld, nsaves>>

NoCache == [valid |-> FALSE, rows |-> <<>>, age |-> 0]
SavePcs == {"delete", "insert", "commit", "clear"}

Init ==
  /\ table = <<>> /\ seq = 0 /\ pending = <<>> /\ pseq = 0
  /\ cache = NoCache
  /\ pc = "idle" /\ call = "none"
  /\ df = EmptyFrame /\ filtro = NoFilter /\ edited_df = EmptyFrame
  /\ saving = EmptyFrame /\ uploaded = NoFile /\ csv = NoFile
  /\ status = "none" /\ saveOld = <<>> /\ nsaves = 0 /\ uplNew = FALSE
  /\ last = [hit |-> FALSE, afterSave |-> FALSE]
  /\ sinceSave = FALSE

\* ---------------------------------------------------------------- load_data
CacheFresh(c) == c.valid /\ c.age < TTL
\* @st.cache_data(ttl=600): the cached snapshot while it is younger than the
\* ttl, otherwise a new SELECT that replaces it.
CacheHit(c) == CacheFresh(c)

load_data ==
  IF CacheHit(cache) THEN [hit |-> TRUE, rows |-> cache.rows, cache |-> cache]
  ELSE [hit |-> FALSE, rows |-> table,
        cache |-> [valid |-> TRUE, rows |-> table, age |-> 0]]

\* load_data.clear()
CacheKept(c) == c
CacheClear(c) == NoCache

\* Time passes until the snapshot is as old as the ttl.  Its age only
\* matters through the comparison with TTL, so an age of 0 stands for every
\* age below TTL and an age of TTL for every age from TTL on.
Tick ==
  /\ cache.valid /\ cache.age < TTL
  /\ cache' = [cache EXCEPT !.age = TTL]
  /\ UNCHANGED <<dbVars, pc, runVars, callVars, uploaded, csv, uplNew, last,
                 sinceSave>>

\* What the save in progress would leave in the table if it returns.
Intended(frame, s) ==
  LET r == InsertLoop(frame.rows, <<>>, s) IN [ok |-> r.ok, rows |-> r.rows]

\* tab_dashboard in the other session: df = load_data().
Dashboard ==
  LET r == load_data
  IN /\ cache' = r.cache
     /\ last' = [hit |-> r.hit, afterSave |-> sinceSave]
     /\ sinceSave' = FALSE
     /\ UNCHANGED <<dbVars, pc, runVars, callVars, uploaded, csv, uplNew>>

\* ------------------------------------------------------------- tab_5w2h
\* Where a save_dataframe call returns (or raises) to.
Return(site) == IF site = "grid" THEN "upload" ELSE "download"

\* One rerun of the script, started by one interaction with a widget, up to
\* the "Salvar Alterações" button: load, filter, grid, and the entry into
\* save_dataframe when the button was clicked.  The widgets keep their
\* state, so the file uploader still holds a file attached earlier.
Run(click, file, f, grid) ==
  LET r == load_data
  IN /\ pc = "idle"
     /\ click => file = uploaded
     /\ seq + (IF click THEN Len(grid.rows) ELSE 0) + Len(file.lines) <= MaxId
     /\ cache' = r.cache
     /\ last' = [hit |-> r.hit, afterSave |-> sinceSave]
     /\ sinceSave' = FALSE
     /\ df' = Frame(TableCols, r.rows)
     /\ filtro' = IF click THEN f ELSE NoFilter
     /\ edited_df' = IF click THEN grid ELSE EmptyFrame
     /\ uploaded' = file
     /\ uplNew' = (file # uploaded /\ file # NoFile)
     /\ IF click
        THEN /\ call' = "grid" /\ saving' = grid /\ status' = "running"
             /\ saveOld' = table /\ nsaves' = 1 /\ pc' = "delete"
        ELSE /\ call' = "none" /\ saving' = EmptyFrame /\ status' = "none"
             /\ saveOld' = <<>> /\ nsaves' = 0 /\ pc' = "upload"
     /\ UNCHANGED <<dbVars, csv>>

Rerun ==
  \E click \in BOOLEAN, file \in {uploaded, NoFile, csv} \cup SampleFiles :
    \E f \in Filters(Frame(TableCols, load_data.rows)) :
      \E grid \in data_editor(editor_df(Frame(TableCols, load_data.rows), f)) :
        Run(click, file, f, grid)

\* cursor.execute("DELETE FROM projetos"); conn.commit()
SaveDelete ==
  /\ pc = "delete"
  /\ table' = <<>>
  /\ pc' = "insert"
  /\ UNCHANGED <<seq, pending, pseq, cache, runVars, callVars, uploaded, csv,
                 uplNew, last, sinceSave>>

\* An exception leaves save_dataframe with its transaction open; the
\* connection is dropped without a commit, which rolls the inserts back.
\* What is committed then is what the DELETE left.
TableAfterRaise(tbl, inserted) == tbl

\* The for loop: every row inserted, or an exception at the first row whose
\* values cannot be built.
SaveInsert ==
  LET r == InsertLoop(saving.rows, <<>>, seq)
  IN /\ pc = "insert"
     /\ IF r.ok
        THEN /\ pending' = r.rows /\ pseq' = r.seq
             /\ pc' = "commit"
             /\ UNCHANGED <<table, status>>
        ELSE /\ pending' = <<>> /\ pseq' = seq
             /\ table' = TableAfterRaise(table, r.rows)
             /\ status' = "failed"
             /\ pc' = Return(call)
     /\ UNCHANGED <<seq, cache, runVars, call, saving, saveOld, nsaves,
                    uploaded, csv, uplNew, last, sinceSave>>

\* conn.commit(); conn.close()
SaveCommit ==
  /\ pc = "commit"
  /\ table' = pending /\ seq' = pseq
  /\ pending' = <<>>
  /\ pc' = "clear"
  /\ UNCHANGED <<pseq, cache, runVars, callVars, uploaded, csv, uplNew, last,
                 sinceSave>>

\* load_data.clear(), then the return to the caller (st.success).
SaveClear ==
  /\ pc = "clear"
  /\ cache' = CacheClear(cache)
  /\ status' = "ok"
  /\ sinceSave' = TRUE
  /\ pc' = Return(call)
  /\ UNCHANGED <<dbVars, runVars, call, saving, saveOld, nsaves, uploaded,
                 csv, uplNew, last>>

\* if uploaded_file is not None: df_upload = pd.read_csv(uploaded_file);
\* save_dataframe(df_upload).  A file that cannot be read is reported and
\* nothing is saved.
Upload ==
  LET d == read_csv(uploaded)
  IN /\ pc = "upload"
     /\ IF uploaded # NoFile /\ d.ok
        THEN /\ call' = "upload" /\ saving' = d.df /\ status' = "running"
             /\ saveOld' = table /\ nsaves' = nsaves + 1 /\ pc' = "delete"
        ELSE /\ pc' = "download"
             /\ UNCHANGED callVars
     /\ filtro' = NoFilter /\ edited_df' = EmptyFrame
     /\ UNCHANGED <<dbVars, cache, df, uploaded, csv, uplNew, last, sinceSave>>

\* csv = download_csv(df); st.download_button(data=csv): the end of the run.
Download ==
  /\ pc = "download"
  /\ csv' = download_csv(df)
  /\ df' = EmptyFrame /\ filtro' = NoFilter /\ edited_df' = EmptyFrame
  /\ call' = "none" /\ saving' = EmptyFrame /\ status' = "none"
  /\ saveOld' = <<>> /\ nsaves' = 0 /\ uplNew' = FALSE
  /\ pc' = "idle"
  /\ UNCHANGED <<dbVars, cache, uploaded, last, sinceSave>>

Next ==
  \/ Rerun \/ SaveDelete \/ SaveInsert \/ SaveCommit \/ SaveClear
  \/ Upload \/ Download \/ Dashboard \/ Tick

Spec == Init /\ [][Next]_vars

\* ================================================================ claims
\* save_dataframe has returned / has raised, and the run has not ended.
Saved == status = "ok" /\ pc \in {"upload", "download"}
Failed == status = "failed" /\ pc \in {"upload", "download"}

\* A cell of the type its column declares: text or null in a text column,
\* a number or null in a REAL column.
WellTyped(c, v) ==
  IF c \in RealFields THEN v.k \in {"null", "int", "float"}
  ELSE v.k \in {"null", "str"}
\* The stored cell holds the value of the input cell.
SameValue(c, v, stored) ==
  IF c \in RealFields /\ v.k # "null" THEN stored = Flt(v.n) ELSE stored = v
\* The table holds the rows of the frame: as many, in the same order, with
\* the same value in every well-typed cell.
HoldsRowsOf(tbl, frame) ==
  /\ Len(tbl) = Len(frame.rows)
  /\ \A i \in DOMAIN frame.rows :
       \A c \in Fields \cap DOMAIN frame.rows[i] :
         WellTyped(c, frame.rows[i][c]) =>
           SameValue(c, frame.rows[i][c], tbl[i][c])

\* C1: when save_dataframe fails, the table afterwards holds exactly the
\* records it held before the call.
C1_AllOrNothing == Failed => table = saveOld

\* C2: a load_data that reads the table while a save_dataframe call is in
\* progress gets the complete old record set or the complete new one.
C2_ReaderSeesOldOrNew ==
  [][(Dashboard /\ pc \in SavePcs /\ ~CacheHit(cache)) =>
       \/ cache'.rows = saveOld
       \/ /\ Intended(saving, seq).ok
          /\ FieldRows(cache'.rows) = FieldRows(Intended(saving, seq).rows)]_vars

C4_CacheAccurateAfterFailure ==
  (Failed /\ CacheHit(cache)) => cache.rows = table

Lenient(row, c) ==
  \/ c \notin DOMAIN row
  \/ ~notnull(row[c])
  \/ row[c] = Str("")
  \/ ~float(row[c]).ok
C6_NumericLeniency ==
  (Saved \/ Failed) =>
    \A i \in DOMAIN saving.rows : \A c \in RealFields :
      Lenient(saving.rows[i], c) => (status = "ok" /\ table[i][c] = Null)

\* C7: one interaction causes at most one bulk replace, and an uploaded
\* file is written only by the run of the interaction that uploaded it.
C7_OneReplacePerInteraction ==
  /\ nsaves <= 1
  /\ call = "upload" => uplNew

DistinctIds(tbl) ==
  \A i, j \in DOMAIN tbl : i # j => tbl[i]["id"] # tbl[j]["id"]

\* C8 (as stated): stored ids are pairwise distinct, and a successful
\* replace numbers its records 1, 2, ... in input order.
C8_IdsRestartAtOne ==
  /\ DistinctIds(table)
  /\ Saved => \A i \in DOMAIN table : table[i]["id"] = IntV(i)
\* C8 (amended): stored ids are pairwise distinct, and a successful replace
\* numbers its records consecutively in input order starting one above the
\* largest id ever committed before (sqlite_sequence), which the DELETE does
\* not reset.
C8_IdsContinue ==
  /\ []DistinctIds(table)
  /\ [][SaveCommit =>
          /\ Len(table') = Len(saving.rows)
          /\ \A i \in DOMAIN table' : table'[i]["id"] = IntV(seq + i)]_vars
C8_Witness == Saved /\ saveOld # <<>> /\ table # <<>> /\ table[1]["id"].n > 1

\* C9: importing the export of the stored records leaves the table with
\* the same field values in the same order (ids aside), empty strings and
\* nulls included.
C9_CsvRoundTrip ==
  (Saved /\ call = "upload" /\ uploaded = download_csv(ReadAll(saveOld))) =>
    FieldRows(table) = FieldRows(saveOld)

\* C10: after a successful "Salvar Alterações" the table holds exactly the
\* rows of the edited grid, and the grid was built from the loaded records
\* whose quem and status_tarefa are selected and whose fim_previsto parses
\* to a day inside [data_inicial, data_final]; no other loaded record is
\* kept, one with an unparseable fim_previsto included.
PassesFilter(r) ==
  /\ r["quem"] \in filtro.selected_quem
  /\ r["status_tarefa"] \in filtro.selected_status
  /\ to_datetime(r["fim_previsto"]) # NaT
  /\ to_datetime(r["fim_previsto"]) >= filtro.data_inicial
  /\ to_datetime(r["fim_previsto"]) <= filtro.data_final
GridSaved == Saved /\ call = "grid" /\ pc = "upload"
====
